---------------------------- MODULE Spec2Model ----------------------------
(***************************************************************************)
(* A model of the retrieval core of Berkshire-RAG:                         *)
(*   - DocumentProcessor.chunkDocument (the chunker),                      *)
(*   - VectorStore (initialize / storeDocuments / searchSimilar /          *)
(*     getStats / close) over a PostgreSQL table berkshire_documents,      *)
(*   - the cosine similarity used for ranking.                             *)
(* Source: src/Berkshire-RAG/src/mastra/db/vectorStore.ts (the file holds   *)
(* vectorStore.ts, documentProcessor.ts and ragTools.ts one after another). *)
(***************************************************************************)
EXTENDS Integers, Sequences, FiniteSets, TLC

VARIABLES
    \* ---- chunkDocument: one call, one loop iteration per step
    content,      \* the text being chunked: a sequence of characters
    chunkSize,    \* parameter chunkSize
    overlap,      \* parameter overlap
    start,        \* the cursor `start`
    chunks,       \* the array `chunks`
    cpc,          \* position of the call: "loop" | "done" | "off"
    ctick,        \* parity of the number of loop iterations executed
    \* ---- the PostgreSQL database behind the pool
    tableKind,    \* berkshire_documents: "none" | "vector" | "jsonb" (type of column embedding)
    db,           \* the committed rows of berkshire_documents, by id
    now,          \* the database clock (CURRENT_TIMESTAMP of the latest transaction)
    nextIns,      \* number of rows inserted so far (physical insertion order)
    \* ---- one VectorStore instance
    useVectorExtension,  \* the field useVectorExtension
    \* ---- storeDocuments: the call in progress, one statement per step
    spc,          \* "idle" | "begin" | "upsert" | "commit" | "rollback" | "done"
    sdocs,        \* parameter documents
    si,           \* index in sdocs of the next document of the for loop
    stx,          \* the open transaction: its timestamp and its uncommitted rows
    sfail,        \* the statement that failed: "none" | "connect" | "begin" | "upsert" | "commit"
    srolledBack,  \* whether the call has issued ROLLBACK
    sthrown,      \* the error the call threw: "none", or the statement whose error it is
    sdb0,         \* the committed rows when the call started
    sprev,        \* whether the previous call returned without error and had the same documents
    scalls,       \* number of storeDocuments calls started
    checkedOut,   \* clients checked out of the pool and not yet released
    \* ---- the environment
    faulty,       \* whether statements can fail for reasons of the connection
    \* ---- searchSimilar (one statement) and getStats (three statements)
    found,        \* the latest searchSimilar call: its arguments, the rows it read, its result
    gpc,          \* getStats: "idle" | "year" | "file" | "done"
    gstats,       \* getStats: what its statements returned so far
    \* ---- initialize and close
    ipc,          \* initialize: "idle" | "probe" | "schema" | "off"
    icalls,       \* number of initialize calls started
    initialized,  \* whether an initialize call has returned without error
    closed,       \* whether close() has been called (pool.end())
    modes,        \* the values of useVectorExtension that storeDocuments and searchSimilar
                  \* calls have branched on since initialize first returned
    iprobe,       \* the probe of the latest initialize call: "none" | "ok" | "failed"
    ithrown,      \* the error the latest initialize call threw: "none", or its statement
    cthrown,      \* whether the latest close() call threw
    \* ---- the embedder behind generateEmbeddings and searchByText
    ppc,          \* generateEmbeddings: "off" | "idle" | "embed" | "returned"
    pdocs,        \* parameter processedDocs
    pidx,         \* index in pdocs of the next document of the for loop
    pout,         \* the array docsWithEmbeddings
    elog,         \* the embedder calls of the generateEmbeddings call: input length, outcome
    qlog,         \* the embedder calls of the latest searchByText call: input length, outcome
    qout          \* the latest searchByText call: "none" | "thrown" | "searched"

chunkVars == <<content, chunkSize, overlap, start, chunks, cpc, ctick>>
dbVars == <<tableKind, db, now, nextIns>>
storeVars == <<spc, sdocs, si, stx, sfail, srolledBack, sthrown, sdb0, sprev, scalls>>

readVars == <<found, gpc, gstats>>
lifeVars == <<ipc, icalls, initialized, closed, modes, iprobe, ithrown, cthrown>>
pipeVars == <<ppc, pdocs, pidx, pout, elog, qlog, qout>>

vars == <<chunkVars, dbVars, useVectorExtension, storeVars, checkedOut, faulty, readVars,
          lifeVars, pipeVars>>

-----------------------------------------------------------------------------
(* Generic helpers *)

Max2(a, b) == IF a >= b THEN a ELSE b
Min2(a, b) == IF a <= b THEN a ELSE b

SetMax(S) == CHOOSE x \in S : \A y \in S : y <= x
SetMin(S) == CHOOSE x \in S : \A y \in S : x <= y

-----------------------------------------------------------------------------
(* JavaScript string primitives used by chunkDocument.  Strings are        *)
(* sequences of one-character strings; JavaScript indices are 0-based.     *)

\* String.prototype.slice(a, b): negative indices count from the end, both
\* ends are clamped to [0, length], an empty string when from >= to.
JsSlice(str, a, b) ==
    LET len  == Len(str)
        from == IF a < 0 THEN Max2(len + a, 0) ELSE Min2(a, len)
        to   == IF b < 0 THEN Max2(len + b, 0) ELSE Min2(b, len)
    IN  IF from < to THEN SubSeq(str, from + 1, to) ELSE <<>>

\* String.prototype.lastIndexOf(ch): 0-based index of the last occurrence, -1 if none.
JsLastIndexOf(str, ch) ==
    LET hits == {i \in 1..Len(str) : str[i] = ch}
    IN  IF hits = {} THEN -1 ELSE SetMax(hits) - 1

IsSpace(ch) == ch \in {" ", "\n"}

\* String.prototype.trim(): strips leading and trailing whitespace.
JsTrim(str) ==
    LET solid == {i \in 1..Len(str) : ~IsSpace(str[i])}
    IN  IF solid = {} THEN <<>>
        ELSE SubSeq(str, CHOOSE i \in solid : \A j \in solid : i <= j, SetMax(solid))

-----------------------------------------------------------------------------
(* Documents: ProcessedDocument, vectorStore.ts lines 427-437, as            *)
(* createDocumentChunks (477-501) and generateEmbeddings (504-523) build     *)
(* them.  A file name is a sequence of characters.                          *)

Digits == {"0", "1", "2", "3", "4", "5", "6", "7", "8", "9"}

Unknown == <<"u", "n", "k", "n", "o", "w", "n">>

\* filename.match(/(\d{4})/): the leftmost run of four digits, else 'unknown'
ExtractYearFromFilename(filename) ==
    LET hits == {i \in 1..(Len(filename) - 3) : \A k \in 0..3 : filename[i + k] \in Digits}
    IN  IF hits = {} THEN Unknown
        ELSE SubSeq(filename, SetMin(hits), SetMin(hits) + 3)

\* vector(1536): the dimension of text-embedding-3-small
EmbeddingDim == 1536

\* An embedding is a number[] of length dim whose first two components are c
\* and whose other components are 0.
Vec(dim, x, y) == [dim |-> dim, c |-> <<x, y>>]

\* The embedder (openai.embeddings.create), an external function of the text:
\* a deterministic stand-in.  Texts are opaque strings here.
EmbedStub ==
    [t \in {"a", "b", "c", "d"} |->
        CASE t = "a" -> <<1, 0>>
          [] t = "b" -> <<0, 1>>
          [] t = "c" -> <<1, 1>>
          [] t = "d" -> <<-1, 0>>]

CreateEmbedding(text) == Vec(EmbeddingDim, EmbedStub[text][1], EmbedStub[text][2])

\* the ProcessedDocument of chunk i of file `filename` with text `text`
\* (id stands for `${filename}_chunk_${i}`)
MkDoc(filename, i, text) ==
    [id        |-> <<filename, i>>,
     content   |-> text,
     filename  |-> filename,
     year      |-> ExtractYearFromFilename(filename),
     chunkIndex |-> i,
     embedding |-> CreateEmbedding(text)]

\* the record doc with another value of its optional field `embedding`
WithEmbedding(doc, e) == [doc EXCEPT !.embedding = e]

\* the record doc as a caller re-submits it with the metadata of chunk i of
\* another file (storeDocuments takes any ProcessedDocument)
WithMetadata(doc, filename, i) ==
    [doc EXCEPT !.filename = filename,
                !.year = ExtractYearFromFilename(filename),
                !.chunkIndex = i]

File2020 == <<"2", "0", "2", "0", ".", "p", "d", "f">>
File2021 == <<"2", "0", "2", "1", ".", "p", "d", "f">>
FileNoYear == <<"a", ".", "p", "d", "f">>

-----------------------------------------------------------------------------
(* The table berkshire_documents, vectorStore.ts lines 48-61 and 72-85, and  *)
(* the upsert statement of storeDocuments, lines 123-157.                    *)

NoRow == [absent |-> TRUE]
NoStats == [ok |-> FALSE, none |-> TRUE]
Untouched == [untouched |-> TRUE]
NoTx == [open |-> FALSE]

\* year VARCHAR(4) NOT NULL
MaxYearLen == 4

\* `embedding?: number[]`: the field of a record that has none
Undefined == [undefined |-> TRUE]

\* SQL NULL (the embedding column is nullable in both tables)
Null == [null |-> TRUE]

\* JSON.stringify(doc.embedding): the JSON text of the array; of undefined,
\* undefined
JsonStringify(v) == IF v = Undefined THEN Undefined ELSE [t |-> "string", json |-> v]

\* The value the embedding column takes from the parameter $7: both
\* vector_in and jsonb_in read the JSON text of a number array as that array;
\* an undefined parameter is sent as NULL.
ColumnValue(param) == IF param = Undefined THEN Null ELSE param.json

\* Whether the INSERT ... VALUES row is accepted by the table of kind `kind`:
\* the relation exists, the year fits VARCHAR(4), and a vector(1536) column
\* takes only NULL and vectors of 1536 dimensions (a JSONB column takes NULL
\* and any array).
RowAccepted(kind, doc) ==
    /\ kind # "none"
    /\ Len(doc.year) <= MaxYearLen
    /\ kind = "vector" =>
          \/ ColumnValue(JsonStringify(doc.embedding)) = Null
          \/ ColumnValue(JsonStringify(doc.embedding)).dim = EmbeddingDim

\* UpsertRow with `updated_at = CURRENT_TIMESTAMP` left out of DO UPDATE SET
UpsertRowNoBump(old, doc, ts, ins) ==
    IF old = NoRow
    THEN [id           |-> doc.id,
          content      |-> doc.content,
          filename     |-> doc.filename,
          year         |-> doc.year,
          chunk_index  |-> doc.chunkIndex,
          total_chunks |-> 1,
          source       |-> "berkshire_hathaway_letters",
          embedding    |-> ColumnValue(JsonStringify(doc.embedding)),
          created_at   |-> ts,
          updated_at   |-> ts,
          ins          |-> ins]
    ELSE [old EXCEPT !.content = doc.content,
                     !.embedding = ColumnValue(JsonStringify(doc.embedding))]

\* UpsertRow with every column of the submitted record in DO UPDATE SET
UpsertRowAllColumns(old, doc, ts, ins) ==
    IF old = NoRow
    THEN [id           |-> doc.id,
          content      |-> doc.content,
          filename     |-> doc.filename,
          year         |-> doc.year,
          chunk_index  |-> doc.chunkIndex,
          total_chunks |-> 1,
          source       |-> "berkshire_hathaway_letters",
          embedding    |-> ColumnValue(JsonStringify(doc.embedding)),
          created_at   |-> ts,
          updated_at   |-> ts,
          ins          |-> ins]
    ELSE [old EXCEPT !.content = doc.content,
                     !.filename = doc.filename,
                     !.year = doc.year,
                     !.chunk_index = doc.chunkIndex,
                     !.embedding = ColumnValue(JsonStringify(doc.embedding)),
                     !.updated_at = ts]

\* INSERT ... ON CONFLICT (id) DO UPDATE SET content, embedding, updated_at:
\* the row of doc.id after the statement, given the row `old` the transaction
\* sees, the transaction's CURRENT_TIMESTAMP `ts` and the insertion serial `ins`.
UpsertRow(old, doc, ts, ins) ==
    IF old = NoRow
    THEN [id           |-> doc.id,
          content      |-> doc.content,
          filename     |-> doc.filename,
          year         |-> doc.year,
          chunk_index  |-> doc.chunkIndex,
          total_chunks |-> 1,
          source       |-> "berkshire_hathaway_letters",
          embedding    |-> ColumnValue(JsonStringify(doc.embedding)),
          created_at   |-> ts,
          updated_at   |-> ts,
          ins          |-> ins]
    ELSE [old EXCEPT !.content = doc.content,
                     !.embedding = ColumnValue(JsonStringify(doc.embedding)),
                     !.updated_at = ts]

\* the rows a table holds
Rows(table) == {table[i] : i \in {j \in DOMAIN table : table[j] # NoRow}}

-----------------------------------------------------------------------------
(* Similarity, vectorStore.ts lines 173-194.                                 *)
(* A similarity s in [-1, 1] is represented by SimScale * sgn(s) * s^2, an   *)
(* integer for the vectors used here; the map is strictly increasing, so     *)
(* every comparison of two similarities, or of a similarity with a           *)
(* threshold in the same representation, is the comparison the code makes    *)
(* (up to the rounding of floating point, which is not modelled).            *)

SimScale == 100

Sgn(x) == IF x > 0 THEN 1 ELSE IF x < 0 THEN -1 ELSE 0

Dot(a, b) == a.c[1] * b.c[1] + a.c[2] * b.c[2]

Thrown == [ok |-> FALSE]
Value(v) == [ok |-> TRUE, v |-> v]

\* CalculateCosineSimilarity without the comparison of the two lengths
CalculateCosineSimilarityUnchecked(vec1, vec2) ==
    IF Dot(vec1, vec1) = 0 \/ Dot(vec2, vec2) = 0
    THEN Value(0)
    ELSE Value((SimScale * Sgn(Dot(vec1, vec2)) * Dot(vec1, vec2) * Dot(vec1, vec2))
                  \div (Dot(vec1, vec1) * Dot(vec2, vec2)))

\* calculateCosineSimilarity(vec1, vec2)
CalculateCosineSimilarity(vec1, vec2) ==
    IF vec1.dim # vec2.dim
    THEN Thrown                                  \* 'Vectors must have the same length'
    ELSE IF Dot(vec1, vec1) = 0 \/ Dot(vec2, vec2) = 0
         THEN Value(0)
         ELSE Value((SimScale * Sgn(Dot(vec1, vec2)) * Dot(vec1, vec2) * Dot(vec1, vec2))
                       \div (Dot(vec1, vec1) * Dot(vec2, vec2)))

\* 1 - (embedding <=> $1::vector): the cosine similarity as pgvector computes
\* it, for non-zero vectors of the column's dimension.
PgSimilarity(embedding, q) ==
    (SimScale * Sgn(Dot(embedding, q)) * Dot(embedding, q) * Dot(embedding, q))
        \div (Dot(embedding, embedding) * Dot(q, q))

-----------------------------------------------------------------------------
(* VectorStore.searchSimilar, vectorStore.ts lines 197-333 *)

Unset == [set |-> FALSE]
Given(v) == [set |-> TRUE, v |-> v]

\* `if (filters?.year)`, `if (filters?.filename)`: a string is truthy unless empty
TruthyString(f) == f.set /\ f.v # <<>>

\* `if (filters?.minSimilarity)`: a number is truthy unless 0
TruthyNumber(f) == f.set /\ f.v # 0

\* the predicates `AND year = $n` and `AND filename = $n` of both branches
MetadataMatch(row, filters) ==
    /\ TruthyString(filters.year) => row.year = filters.year.v
    /\ TruthyString(filters.filename) => row.filename = filters.filename.v

\* The rows a SELECT without ORDER BY returns, in the order the engine
\* produces them: PostgreSQL leaves that order unspecified, `order` (a
\* sequence of all ids) is the one it takes for this statement.
ScanRows(table, order, filters) ==
    LET pick(i) == table[i] # NoRow /\ MetadataMatch(table[i], filters)
        kept == SelectSeq(order, pick)
    IN  [k \in 1..Len(kept) |-> table[kept[k]]]

\* the object searchSimilar returns for a row
ResultOf(row, similarity) ==
    [id         |-> row.id,
     content    |-> row.content,
     filename   |-> row.filename,
     year       |-> row.year,
     similarity |-> similarity,
     metadata   |-> [chunkIndex |-> row.chunk_index, totalChunks |-> row.total_chunks]]

\* sort((a, b) => b.similarity - a.similarity): descending, stable; it is also
\* the order of ORDER BY embedding <=> $1 over rows scanned in that order
\* (rows at the same distance come in an unspecified order).
RECURSIVE SortDesc(_)
SortDesc(s) ==
    IF s = <<>> THEN <<>>
    ELSE LET rest == SortDesc(Tail(s))
             before == {k \in 1..Len(rest) : rest[k].similarity > Head(s).similarity}
             n == Cardinality(before)
         IN  SubSeq(rest, 1, n) \o <<Head(s)>> \o SubSeq(rest, n + 1, Len(rest))

\* slice(0, limit), LIMIT $n (limit >= 1)
Limit(s, limit) == SubSeq(s, 1, Min2(limit, Len(s)))

\* IndexedSearch with the predicates on year and filename applied to the rows
\* that ORDER BY ... LIMIT returned, instead of in the WHERE clause
IndexedSearchLateFilter(kind, table, order, q, limit, filters) ==
    IF kind # "vector" \/ q.dim # EmbeddingDim
    THEN Thrown
    ELSE LET rows == ScanRows(table, order, [filters EXCEPT !.year = Unset, !.filename = Unset])
             scored == [k \in 1..Len(rows) |-> ResultOf(rows[k], PgSimilarity(rows[k].embedding, q))]
             pass(r) == TruthyNumber(filters.minSimilarity) => r.similarity >= filters.minSimilarity.v
             late(r) == MetadataMatch(r, filters)
         IN  Value(SelectSeq(Limit(SortDesc(SelectSeq(scored, pass)), limit), late))

\* the pgvector branch, lines 214-266
IndexedSearch(kind, table, order, q, limit, filters) ==
    IF kind # "vector" \/ q.dim # EmbeddingDim
    THEN Thrown       \* no relation; no operator jsonb <=> vector; dimensions differ
    ELSE LET rows == ScanRows(table, order, filters)
             scored == [k \in 1..Len(rows) |-> ResultOf(rows[k], PgSimilarity(rows[k].embedding, q))]
             pass(r) == TruthyNumber(filters.minSimilarity) => r.similarity >= filters.minSimilarity.v
         IN  Value(Limit(SortDesc(SelectSeq(scored, pass)), limit))

\* The JavaScript value of row.embedding: node-postgres parses a JSONB column
\* into the array itself, and hands a vector column over as its text, which
\* is the JSON text of the array.
DriverValue(kind, embedding) ==
    IF kind = "jsonb" THEN [t |-> "array", v |-> embedding]
    ELSE [t |-> "string", json |-> embedding]

\* JSON.parse(x): of a string, the value it denotes; of an array, the parse
\* of String(x), the elements joined by commas, which is JSON only for an
\* array of one element, and then denotes a number: a value without a
\* length (dim -1 here, which no array has).  Otherwise a SyntaxError.
JsonParse(x) ==
    IF x.t = "string" THEN Value(x.json)
    ELSE IF x.v.dim = 1 THEN Value([dim |-> -1, c |-> x.v.c])
    ELSE Thrown

\* the JavaScript branch, lines 267-328
ScalarSearch(kind, table, order, q, limit, filters) ==
    IF kind = "none"
    THEN Thrown       \* relation "berkshire_documents" does not exist
    ELSE LET rows == ScanRows(table, order, filters)
             parsed == [k \in 1..Len(rows) |-> JsonParse(DriverValue(kind, rows[k].embedding))]
             sims == [k \in 1..Len(rows) |->
                         IF parsed[k].ok THEN CalculateCosineSimilarity(q, parsed[k].v) ELSE Thrown]
         IN  IF \E k \in 1..Len(rows) : ~sims[k].ok
             THEN Thrown
             ELSE LET scored == [k \in 1..Len(rows) |-> ResultOf(rows[k], sims[k].v)]
                      pass(r) == TruthyNumber(filters.minSimilarity) =>
                                    r.similarity >= filters.minSimilarity.v
                  IN  Value(Limit(SortDesc(SelectSeq(scored, pass)), limit))

\* searchSimilar(queryEmbedding, limit, filters) in mode `indexed`
Search(indexed, kind, table, order, q, limit, filters) ==
    IF indexed THEN IndexedSearch(kind, table, order, q, limit, filters)
    ELSE ScalarSearch(kind, table, order, q, limit, filters)

-----------------------------------------------------------------------------
(* VectorStore.storeDocuments, vectorStore.ts lines 115-170 *)

\* The documents of the store runs, and the batches made of them.
StoreDocs ==
    {MkDoc(File2020, 0, "a"), WithMetadata(MkDoc(File2020, 0, "b"), File2021, 1),
     MkDoc(File2021, 0, "a"), MkDoc(FileNoYear, 0, "a")}
Ids == {d.id : d \in StoreDocs}
MaxBatch == 2
MaxStores == 2
Batches == UNION {[1..n -> StoreDocs] : n \in 1..MaxBatch}

EmptyTable == [i \in Ids |-> NoRow]

\* the outcomes of a statement, as far as the connection decides them
MayFail == IF faulty THEN BOOLEAN ELSE {TRUE}

\* the outcomes of this.pool.connect() and this.pool.query(): both reject once
\* the pool has ended
PoolOutcomes == IF closed THEN {FALSE} ELSE MayFail

\* `if (this.useVectorExtension)`: the branch a call takes is noted
ModesWith(mode) == IF initialized THEN modes \cup {mode} ELSE modes

\* the row of id i as the open transaction sees it (its own writes first)
TxRow(i) == IF stx.rows[i] = Untouched THEN db[i] ELSE stx.rows[i]

\* the table once the open transaction commits
TxCommitted == [i \in Ids |-> TxRow(i)]

\* const client = await this.pool.connect() -- before the try block
StoreDocuments(documents) ==
    /\ spc \in {"idle", "done"}
    /\ scalls < MaxStores
    /\ scalls' = scalls + 1
    /\ sdocs' = documents
    /\ si' = 1
    /\ stx' = NoTx
    /\ srolledBack' = FALSE
    /\ sdb0' = db
    /\ sprev' = (spc = "done" /\ sthrown = "none" /\ documents = sdocs)
    /\ \E connects \in PoolOutcomes :
          IF connects
          THEN /\ spc' = "begin"
               /\ sfail' = "none"
               /\ sthrown' = "none"
               /\ checkedOut' = checkedOut + 1
          ELSE /\ spc' = "done"
               /\ sfail' = "connect"
               /\ sthrown' = "connect"
               /\ UNCHANGED checkedOut
    /\ UNCHANGED <<chunkVars, pipeVars, lifeVars, dbVars, useVectorExtension, faulty, readVars>>

\* await client.query('BEGIN')
StoreBegin ==
    /\ spc = "begin"
    /\ \E ok \in MayFail :
          IF ok
          THEN /\ now' = now + 1
               /\ stx' = [open |-> TRUE, ts |-> now + 1, n |-> 0,
                          rows |-> [i \in Ids |-> Untouched]]
               /\ spc' = "upsert"
               /\ UNCHANGED sfail
          ELSE /\ sfail' = "begin"
               /\ spc' = "rollback"
               /\ UNCHANGED <<now, stx>>
    /\ UNCHANGED <<chunkVars, pipeVars, lifeVars, tableKind, db, nextIns, useVectorExtension, sdocs, si,
                   srolledBack, sthrown, sdb0, sprev, scalls, checkedOut, faulty, readVars>>

\* the rows of the open transaction after the upsert of doc
UpsertInTx(doc) ==
    [stx EXCEPT !.rows[doc.id] = UpsertRow(TxRow(doc.id), doc, stx.ts, nextIns + stx.n),
                !.n = IF TxRow(doc.id) = NoRow THEN stx.n + 1 ELSE stx.n]

\* StoreUpsert with the statement sent through this.pool.query instead of
\* the client of the transaction: it commits on its own.
StoreUpsertAutocommit ==
    /\ spc = "upsert"
    /\ si <= Len(sdocs)
    /\ \E ok \in MayFail :
          IF ok /\ RowAccepted(tableKind, sdocs[si])
          THEN /\ db' = [db EXCEPT ![sdocs[si].id] =
                            UpsertRow(db[sdocs[si].id], sdocs[si], stx.ts, nextIns)]
               /\ nextIns' = IF db[sdocs[si].id] = NoRow THEN nextIns + 1 ELSE nextIns
               /\ si' = si + 1
               /\ UNCHANGED <<spc, sfail, stx>>
          ELSE /\ sfail' = "upsert"
               /\ spc' = "rollback"
               /\ stx' = NoTx
               /\ UNCHANGED <<si, db, nextIns>>
    /\ modes' = ModesWith(useVectorExtension)
    /\ UNCHANGED <<chunkVars, pipeVars, ipc, icalls, initialized, closed, iprobe, ithrown, cthrown, tableKind, now, useVectorExtension, sdocs, srolledBack, sthrown,
                   sdb0, sprev, scalls, checkedOut, faulty, readVars>>

\* one iteration of `for (const doc of documents)`: await client.query(INSERT ...).
\* Both branches of `if (this.useVectorExtension)` issue the same statement.
\* The statement fails when the table rejects the row, or for a reason of the
\* connection (`ok` false); a failed statement aborts the transaction.
StoreUpsert ==
    /\ spc = "upsert"
    /\ si <= Len(sdocs)
    /\ \E ok \in MayFail :
          IF ok /\ RowAccepted(tableKind, sdocs[si])
          THEN /\ stx' = UpsertInTx(sdocs[si])
               /\ si' = si + 1
               /\ UNCHANGED <<spc, sfail>>
          ELSE /\ sfail' = "upsert"
               /\ spc' = "rollback"
               /\ stx' = NoTx
               /\ UNCHANGED si
    /\ modes' = ModesWith(useVectorExtension)
    /\ UNCHANGED <<chunkVars, pipeVars, ipc, icalls, initialized, closed, iprobe, ithrown, cthrown, dbVars, useVectorExtension, sdocs, srolledBack, sthrown,
                   sdb0, sprev, scalls, checkedOut, faulty, readVars>>

\* await client.query('COMMIT'), then `finally { client.release() }`.
\* A COMMIT that fails leaves the transaction aborted.
StoreCommit ==
    /\ spc = "upsert"
    /\ si > Len(sdocs)
    /\ \E ok \in MayFail :
          IF ok
          THEN /\ db' = TxCommitted
               /\ nextIns' = nextIns + stx.n
               /\ spc' = "done"
               /\ checkedOut' = checkedOut - 1
               /\ UNCHANGED sfail
          ELSE /\ sfail' = "commit"
               /\ spc' = "rollback"
               /\ UNCHANGED <<db, nextIns, checkedOut>>
    /\ stx' = NoTx
    /\ UNCHANGED <<chunkVars, pipeVars, lifeVars, tableKind, now, useVectorExtension, sdocs, si, srolledBack,
                   sthrown, sdb0, sprev, scalls, faulty, readVars>>

\* StoreRollback with `throw error` left out of the catch block
StoreRollbackSwallows ==
    /\ spc = "rollback"
    /\ srolledBack' = TRUE
    /\ \E ok \in MayFail : sthrown' = IF ok THEN "none" ELSE "rollback"
    /\ stx' = NoTx
    /\ spc' = "done"
    /\ checkedOut' = checkedOut - 1
    /\ UNCHANGED <<chunkVars, pipeVars, lifeVars, dbVars, useVectorExtension, sdocs, si, sfail, sdb0, sprev,
                   scalls, faulty, readVars>>

\* catch (error) { await client.query('ROLLBACK'); throw error } finally
\* { client.release() }.  When ROLLBACK itself fails, its error is the one
\* that leaves the catch block.
StoreRollback ==
    /\ spc = "rollback"
    /\ srolledBack' = TRUE
    /\ \E ok \in MayFail : sthrown' = IF ok THEN sfail ELSE "rollback"
    /\ stx' = NoTx
    /\ spc' = "done"
    /\ checkedOut' = checkedOut - 1
    /\ UNCHANGED <<chunkVars, pipeVars, lifeVars, dbVars, useVectorExtension, sdocs, si, sfail, sdb0, sprev,
                   scalls, faulty, readVars>>

-----------------------------------------------------------------------------
(* The calls that read: searchSimilar (197-333) and getStats (367-406).      *)
(* Each pool.query is one statement in its own implicit transaction: it      *)
(* reads the rows committed when it runs.  One reader makes the calls, one   *)
(* after the other, while storeDocuments runs.                               *)

Orders == {o \in [1..Cardinality(Ids) -> Ids] : \A i \in Ids : \E k \in DOMAIN o : o[k] = i}

NoFilters == [year |-> Unset, filename |-> Unset, minSimilarity |-> Unset]

NoSearch == [op |-> "none"]

\* the number of upserts the open transaction has executed and not committed
PendingUpserts == IF spc = "upsert" THEN si - 1 ELSE 0

\* searchSimilar(queryEmbedding, limit, filters); `order` is the order in
\* which the engine scans the rows for this statement.  The variables of the
\* embedder are left to the caller.
SearchSimilarCall(order, queryEmbedding, limit, filters) ==
    /\ spc # "off"
    /\ gpc \in {"idle", "done"}
    /\ found = NoSearch
    /\ \E ok \in PoolOutcomes :
          found' = [op      |-> "search",
                    indexed |-> useVectorExtension,
                    kind    |-> tableKind,
                    table   |-> db,
                    q       |-> queryEmbedding,
                    limit   |-> limit,
                    filters |-> filters,
                    pending |-> PendingUpserts,
                    res     |-> IF ok
                                THEN Search(useVectorExtension, tableKind, db, order,
                                            queryEmbedding, limit, filters)
                                ELSE Thrown]
    /\ gpc' = "idle"
    /\ gstats' = NoStats
    /\ modes' = ModesWith(useVectorExtension)
    /\ UNCHANGED <<chunkVars, ipc, icalls, initialized, closed, iprobe, ithrown, cthrown,
                   dbVars, useVectorExtension, storeVars, checkedOut, faulty>>

\* a searchSimilar call made by itself, not through searchByText
SearchSimilar(order, queryEmbedding, limit, filters) ==
    /\ SearchSimilarCall(order, queryEmbedding, limit, filters)
    /\ UNCHANGED pipeVars

\* searchSimilar returns: its caller takes the result
SearchReturn ==
    /\ found # NoSearch
    /\ found' = NoSearch
    /\ UNCHANGED <<chunkVars, pipeVars, lifeVars, dbVars, useVectorExtension, storeVars, checkedOut,
                   faulty, gpc, gstats>>

\* a call of calculateCosineSimilarity(vec1, vec2) by itself (as the embedding
\* test script makes it), its arguments and outcome noted
CosineSimilarity(vec1, vec2) ==
    /\ spc # "off"
    /\ found = NoSearch
    /\ found' = [op   |-> "cosine",
                 vec1 |-> vec1,
                 vec2 |-> vec2,
                 res  |-> CalculateCosineSimilarity(vec1, vec2)]
    /\ UNCHANGED <<chunkVars, pipeVars, lifeVars, dbVars, useVectorExtension, storeVars, checkedOut,
                   faulty, gpc, gstats>>

\* SELECT year, COUNT(*) ... GROUP BY year (and the same by filename): the
\* rows {key, count}; parseInt of the decimal text of a count is the count.
\* The ORDER BY of the two statements is not modelled: the rows are a set.
DocumentsByYear(table) ==
    {[key |-> k, count |-> Cardinality({r \in Rows(table) : r.year = k})] :
        k \in {r.year : r \in Rows(table)}}

DocumentsByFile(table) ==
    {[key |-> k, count |-> Cardinality({r \in Rows(table) : r.filename = k})] :
        k \in {r.filename : r \in Rows(table)}}

\* a statement of getStats fails: catch (error) { throw error }
GetStatsThrows ==
    /\ gpc' = "done"
    /\ gstats' = [ok |-> FALSE]

\* SELECT COUNT(*) as total FROM berkshire_documents
GetStatsTotal ==
    /\ spc # "off"
    /\ gpc \in {"idle", "done"}
    /\ found = NoSearch
    /\ \E ok \in PoolOutcomes :
          IF ok /\ tableKind # "none"
          THEN /\ gpc' = "year"
               /\ gstats' = [ok |-> TRUE, totalDocuments |-> Cardinality(Rows(db))]
          ELSE GetStatsThrows
    /\ UNCHANGED <<chunkVars, pipeVars, lifeVars, dbVars, useVectorExtension, storeVars, checkedOut, faulty,
                   found>>

\* SELECT year, COUNT(*) as count ... GROUP BY year ORDER BY year DESC
GetStatsYear ==
    /\ gpc = "year"
    /\ \E ok \in PoolOutcomes :
          IF ok /\ tableKind # "none"
          THEN /\ gpc' = "file"
               /\ gstats' = [ok |-> TRUE,
                             totalDocuments |-> gstats.totalDocuments,
                             documentsByYear |-> DocumentsByYear(db)]
          ELSE GetStatsThrows
    /\ UNCHANGED <<chunkVars, pipeVars, lifeVars, dbVars, useVectorExtension, storeVars, checkedOut, faulty, found>>

\* SELECT filename, COUNT(*) as count ... GROUP BY filename ORDER BY count DESC,
\* then `return {totalDocuments, documentsByYear, documentsByFile}`
GetStatsFile ==
    /\ gpc = "file"
    /\ \E ok \in PoolOutcomes :
          IF ok /\ tableKind # "none"
          THEN /\ gpc' = "done"
               /\ gstats' = [ok |-> TRUE,
                             totalDocuments |-> gstats.totalDocuments,
                             documentsByYear |-> gstats.documentsByYear,
                             documentsByFile |-> DocumentsByFile(db)]
          ELSE GetStatsThrows
    /\ UNCHANGED <<chunkVars, pipeVars, lifeVars, dbVars, useVectorExtension, storeVars, checkedOut, faulty, found>>

PipeOff ==
    /\ ppc = "off"
    /\ pdocs = <<>>
    /\ pidx = 1
    /\ pout = <<>>
    /\ elog = <<>>
    /\ qlog = <<>>
    /\ qout = "none"

ReadsOff ==
    /\ found = NoSearch
    /\ gpc = "idle"
    /\ gstats = NoStats

StoreOff ==
    /\ tableKind = "none"
    /\ db = EmptyTable
    /\ now = 0
    /\ nextIns = 0
    /\ useVectorExtension = FALSE
    /\ spc = "off"
    /\ sdocs = <<>>
    /\ si = 1
    /\ stx = NoTx
    /\ sfail = "none"
    /\ srolledBack = FALSE
    /\ sthrown = "none"
    /\ sdb0 = EmptyTable
    /\ sprev = FALSE
    /\ scalls = 0
    /\ checkedOut = 0
    /\ faulty = FALSE
    /\ ReadsOff
    /\ ipc = "off"
    /\ icalls = 0
    /\ initialized = FALSE
    /\ closed = FALSE
    /\ modes = {}
    /\ iprobe = "none"
    /\ ithrown = "none"
    /\ cthrown = FALSE
    /\ PipeOff

ChunkOff ==
    /\ content = <<>>
    /\ chunkSize = 1
    /\ overlap = 0
    /\ start = 0
    /\ chunks = <<>>
    /\ cpc = "off"
    /\ ctick = 0

\* A store whose initialize() has completed on a fresh database: the probe
\* succeeded (vector column, indexed mode) or failed (JSONB column, scalar mode).
StoreInit ==
    /\ ChunkOff
    /\ \E probe \in BOOLEAN :
          /\ useVectorExtension = probe
          /\ tableKind = IF probe THEN "vector" ELSE "jsonb"
    /\ db = EmptyTable
    /\ now = 0
    /\ nextIns = 0
    /\ spc = "idle"
    /\ sdocs = <<>>
    /\ si = 1
    /\ stx = NoTx
    /\ sfail = "none"
    /\ srolledBack = FALSE
    /\ sthrown = "none"
    /\ sdb0 = EmptyTable
    /\ sprev = FALSE
    /\ scalls = 0
    /\ checkedOut = 0
    /\ faulty = TRUE
    /\ ReadsOff
    /\ ipc = "idle"
    /\ icalls = 1
    /\ initialized = TRUE
    /\ closed = FALSE
    /\ modes = {}
    /\ iprobe = "none"
    /\ ithrown = "none"
    /\ cthrown = FALSE
    /\ PipeOff

\* storeDocuments alone, over every batch of at most MaxBatch documents
WriteNext ==
    \/ \E documents \in Batches : StoreDocuments(documents)
    \/ StoreBegin
    \/ StoreUpsert
    \/ StoreCommit
    \/ StoreRollback

SpecWrite == StoreInit /\ [][WriteNext]_vars

\* the batches stored while the reader runs: two records, the same two with
\* another content for the first, a record followed by one that the table
\* rejects, and a record alone
ReadBatches ==
    {<<MkDoc(File2020, 0, "a"), MkDoc(File2021, 0, "a")>>,
     <<MkDoc(File2020, 0, "b"), MkDoc(File2021, 0, "a")>>,
     <<MkDoc(File2021, 0, "a"), MkDoc(FileNoYear, 0, "a")>>,
     <<MkDoc(File2020, 0, "a")>>}

\* storeDocuments with the reader's calls in between its statements
StoreNext ==
    \/ \E documents \in ReadBatches : StoreDocuments(documents)
    \/ StoreBegin
    \/ StoreUpsert
    \/ StoreCommit
    \/ StoreRollback
    \/ \E order \in Orders : SearchSimilar(order, CreateEmbedding("a"), Cardinality(Ids), NoFilters)
    \/ SearchReturn
    \/ GetStatsTotal
    \/ GetStatsYear
    \/ GetStatsFile

SpecStore == StoreInit /\ [][StoreNext]_vars

-----------------------------------------------------------------------------
(* storeDocuments: the claims *)

RECURSIVE ApplyBatch(_, _, _, _)
ApplyBatch(table, docs, ts, ins) ==
    IF docs = <<>> THEN table
    ELSE LET d == Head(docs)
         IN  ApplyBatch([table EXCEPT ![d.id] = UpsertRow(table[d.id], d, ts, ins)],
                        Tail(docs), ts, IF table[d.id] = NoRow THEN ins + 1 ELSE ins)

\* the tables a statement may read around the latest storeDocuments call:
\* the rows before the call, and the rows with all of its upserts
VisibleTables ==
    {sdb0} \cup
    (IF \A k \in 1..Len(sdocs) : RowAccepted(tableKind, sdocs[k])
     THEN {ApplyBatch(sdb0, sdocs, 0, 0)} ELSE {})

\* the search result f is the result over one of VisibleTables, and each of
\* its records carries the similarity of the embedding of its own content
SearchSeesAllOrNone(f) ==
    /\ \E T \in VisibleTables, order \in Orders :
          f.res = Search(f.indexed, f.kind, T, order, f.q, f.limit, f.filters)
    /\ \A k \in 1..Len(f.res.v) :
          f.res.v[k].similarity =
              CalculateCosineSimilarity(f.q, CreateEmbedding(f.res.v[k].content)).v

\* the answer of the statement of getStats that has just run is its answer
\* over one of VisibleTables
StatsSeeAllOrNone(g, pc) ==
    \E T \in VisibleTables :
        CASE pc = "year" -> g.totalDocuments = Cardinality(Rows(T))
          [] pc = "file" -> g.documentsByYear = DocumentsByYear(T)
          [] pc = "done" -> g.documentsByFile = DocumentsByFile(T)

\* C2: in every interleaving of a storeDocuments call with searchSimilar and
\* getStats calls, every statement that reads the table sees none of the
\* upserts of the batch or all of them, and never a record whose content and
\* embedding come from different writes.
C2_ReadsAllOrNothing ==
    [][/\ (found' # found /\ found'.op = "search" /\ found'.res.ok) => SearchSeesAllOrNone(found')
       /\ (gstats' # gstats /\ gstats'.ok) => StatsSeeAllOrNone(gstats', gpc')]_vars

\* a search that returned records while the first of two upserts of a batch
\* was executed and not committed
C2_Witness ==
    /\ spc = "upsert"
    /\ Len(sdocs) = 2
    /\ si = 2
    /\ stx.rows[sdocs[1].id] # Untouched
    /\ found.op = "search"
    /\ found.pending = 1
    /\ found.res.ok
    /\ found.res.v # <<>>

RECURSIVE SumCounts(_)
SumCounts(S) ==
    IF S = {} THEN 0
    ELSE LET r == CHOOSE x \in S : TRUE IN r.count + SumCounts(S \ {r})

\* C9: every getStats() result is a consistent snapshot: totalDocuments is
\* the sum of the documentsByYear counts and the sum of the documentsByFile
\* counts, also when a storeDocuments commit interleaves with the call.
C9_StatsConsistent ==
    (gpc = "done" /\ gstats.ok) =>
        /\ gstats.totalDocuments = SumCounts(gstats.documentsByYear)
        /\ gstats.totalDocuments = SumCounts(gstats.documentsByFile)

\* the document of the batch that is the latest write of id
LatestWrite(docs, id) ==
    docs[SetMax({k \in 1..Len(docs) : docs[k].id = id})]

\* C10: re-store is idempotent: after storeDocuments has returned twice in a
\* row for an identical batch, the number of rows is the number after the
\* first call, every record of the batch has the content and embedding of
\* its latest write, and its updated_at is strictly greater than after the
\* first call.
C10_RestoreIdempotent ==
    (spc = "done" /\ sthrown = "none" /\ sprev) =>
        /\ Cardinality(Rows(db)) = Cardinality(Rows(sdb0))
        /\ \A k \in 1..Len(sdocs) :
              LET id == sdocs[k].id
              IN  /\ db[id] # NoRow
                  /\ sdb0[id] # NoRow
                  /\ db[id].content = LatestWrite(sdocs, id).content
                  /\ db[id].embedding = LatestWrite(sdocs, id).embedding
                  /\ db[id].updated_at > sdb0[id].updated_at

\* the second of two calls with the same batch of two records has returned
C10_Witness ==
    /\ spc = "done"
    /\ sthrown = "none"
    /\ sprev
    /\ Len(sdocs) = 2
    /\ sdocs[1].id # sdocs[2].id

\* the ids of the records of a batch
BatchIds(docs) == {docs[k].id : k \in 1..Len(docs)}

\* C11: when storeDocuments is given a record whose id already exists, the
\* call that returns has replaced exactly content, embedding and updated_at
\* of the persisted record (by the latest write of the batch and a later
\* timestamp); filename, year, chunk_index, total_chunks, source and
\* created_at keep the values of the first insert, also when the record
\* re-submitted carries other metadata, and every record whose id is not in
\* the batch is unchanged.
C11_UpsertFrame ==
    (spc = "done" /\ sthrown = "none") =>
        \A id \in Ids :
            IF id \in BatchIds(sdocs)
            THEN sdb0[id] # NoRow =>
                    /\ db[id] = [sdb0[id] EXCEPT
                                    !.content = LatestWrite(sdocs, id).content,
                                    !.embedding = LatestWrite(sdocs, id).embedding,
                                    !.updated_at = db[id].updated_at]
                    /\ db[id].updated_at > sdb0[id].updated_at
            ELSE db[id] = sdb0[id]

\* a call has overwritten a record with one of another content that carries
\* another filename, year and chunk index, while the table held another record
C11_Witness ==
    /\ spc = "done"
    /\ sthrown = "none"
    /\ \E k \in 1..Len(sdocs) :
          /\ sdb0[sdocs[k].id] # NoRow
          /\ sdocs[k].filename # sdb0[sdocs[k].id].filename
          /\ sdocs[k].year # sdb0[sdocs[k].id].year
          /\ sdocs[k].chunkIndex # sdb0[sdocs[k].id].chunk_index
          /\ db[sdocs[k].id].content # sdb0[sdocs[k].id].content
    /\ \E id \in Ids \ BatchIds(sdocs) : sdb0[id] # NoRow

-----------------------------------------------------------------------------
(* VectorStore.initialize (29-112) and close (409-411).  One instance, a     *)
(* fresh database; the calls may interleave at their awaits.                 *)

MaxInits == 2

\* the step at which the connection test fails, or "ok"
TestOutcomes == IF closed THEN {"connect"} ELSE {"ok", "connect", "select"}

\* const client = await this.pool.connect(); await client.query('SELECT 1');
\* client.release() -- the release is skipped when SELECT 1 rejects
Initialize ==
    /\ ipc = "idle"
    /\ icalls < MaxInits
    /\ icalls' = icalls + 1
    /\ iprobe' = "none"
    /\ \E outcome \in TestOutcomes :
          /\ ipc' = IF outcome = "ok" THEN "probe" ELSE "idle"      \* else: throw error
          /\ ithrown' = IF outcome = "ok" THEN "none" ELSE outcome
          /\ checkedOut' = IF outcome = "select" THEN checkedOut + 1 ELSE checkedOut
    /\ UNCHANGED <<chunkVars, pipeVars, dbVars, useVectorExtension, storeVars, faulty, readVars,
                   initialized, closed, modes, cthrown>>

\* InitializeProbe without the inner try/catch: the error of CREATE EXTENSION
\* reaches the outer catch, which rethrows it
InitializeProbeFatal ==
    /\ ipc = "probe"
    /\ \E probe \in (IF closed THEN {FALSE} ELSE BOOLEAN) :
          /\ useVectorExtension' = (probe \/ useVectorExtension)
          /\ iprobe' = IF probe THEN "ok" ELSE "failed"
          /\ ipc' = IF probe THEN "schema" ELSE "idle"
          /\ ithrown' = IF probe THEN "none" ELSE "probe"
    /\ UNCHANGED <<chunkVars, pipeVars, dbVars, storeVars, checkedOut, faulty, readVars,
                   icalls, initialized, closed, modes, cthrown>>

\* try { CREATE EXTENSION IF NOT EXISTS vector; this.useVectorExtension = true }
\* catch { this.useVectorExtension = false }
InitializeProbe ==
    /\ ipc = "probe"
    /\ \E probe \in (IF closed THEN {FALSE} ELSE BOOLEAN) :
          /\ useVectorExtension' = probe
          /\ iprobe' = IF probe THEN "ok" ELSE "failed"
    /\ ipc' = "schema"
    /\ UNCHANGED <<chunkVars, pipeVars, dbVars, storeVars, checkedOut, faulty, readVars,
                   icalls, initialized, closed, modes, ithrown, cthrown>>

\* CREATE TABLE IF NOT EXISTS berkshire_documents with the column of the mode,
\* then CREATE INDEX IF NOT EXISTS berkshire_documents_embedding_idx (one name
\* in both branches) and the indexes on year and filename: an existing table
\* and its index are left as they are.
InitializeSchema ==
    /\ ipc = "schema"
    /\ ipc' = "idle"
    /\ \E ok \in PoolOutcomes :
          IF ok
          THEN /\ tableKind' = IF tableKind # "none" THEN tableKind
                               ELSE IF useVectorExtension THEN "vector" ELSE "jsonb"
               /\ initialized' = TRUE
               /\ ithrown' = "none"
          ELSE /\ UNCHANGED <<tableKind, initialized>>                \* throw error
               /\ ithrown' = "schema"
    /\ UNCHANGED <<chunkVars, pipeVars, db, now, nextIns, useVectorExtension, storeVars, checkedOut,
                   faulty, readVars, icalls, closed, modes, iprobe, cthrown>>

\* await this.pool.end(): the pool of node-postgres rejects an end() that
\* comes after an earlier end() ('Called end on pool more than once')
Close ==
    /\ ipc # "off"
    /\ closed' = TRUE
    /\ cthrown' = closed
    /\ UNCHANGED <<chunkVars, pipeVars, dbVars, useVectorExtension, storeVars, checkedOut, faulty,
                   readVars, ipc, icalls, initialized, modes, iprobe, ithrown>>

\* `new VectorStore()` over a database without the table
ModeInit ==
    /\ ChunkOff
    /\ tableKind = "none"
    /\ db = EmptyTable
    /\ now = 0
    /\ nextIns = 0
    /\ useVectorExtension = FALSE
    /\ spc = "idle"
    /\ sdocs = <<>>
    /\ si = 1
    /\ stx = NoTx
    /\ sfail = "none"
    /\ srolledBack = FALSE
    /\ sthrown = "none"
    /\ sdb0 = EmptyTable
    /\ sprev = FALSE
    /\ scalls = 0
    /\ checkedOut = 0
    /\ faulty = FALSE
    /\ ReadsOff
    /\ ipc = "idle"
    /\ icalls = 0
    /\ initialized = FALSE
    /\ closed = FALSE
    /\ modes = {}
    /\ iprobe = "none"
    /\ ithrown = "none"
    /\ cthrown = FALSE
    /\ PipeOff

ModeBatches == {<<MkDoc(File2020, 0, "a")>>, <<MkDoc(File2021, 0, "b")>>}

ModeNext ==
    \/ Initialize
    \/ InitializeProbe
    \/ InitializeSchema
    \/ Close
    \/ \E documents \in ModeBatches : StoreDocuments(documents)
    \/ StoreBegin
    \/ StoreUpsert
    \/ StoreCommit
    \/ StoreRollback
    \/ \E order \in Orders : SearchSimilar(order, CreateEmbedding("a"), Cardinality(Ids), NoFilters)
    \/ SearchReturn
    \/ GetStatsTotal
    \/ GetStatsYear
    \/ GetStatsFile

SpecMode == ModeInit /\ [][ModeNext]_vars

\* C7: the backend mode is selected once, by initialize(), and is fixed for
\* the lifetime of the instance: over any sequence of initialize,
\* storeDocuments, searchSimilar, getStats and close calls (repeated
\* initialize calls with differing probe outcomes included), all
\* storeDocuments and searchSimilar calls made since initialize first
\* returned have executed in one and the same mode.
C7_ModeFixed == Cardinality(modes) <= 1

-----------------------------------------------------------------------------
(* searchSimilar over the tables that storeDocuments builds, in each state  *)
(* that initialize calls can leave the instance and the database in: the    *)
(* mode and the column of the table agree after a first initialize, and a   *)
(* later initialize whose probe has the other outcome changes the mode and  *)
(* leaves the table (SpecMode reaches all four combinations).               *)

\* the batches of the search runs: two records of different years in either
\* order, a record alone (the first time or as an overwrite), and a record
\* that the table rejects
SearchBatches ==
    {<<MkDoc(File2020, 0, "b"), MkDoc(File2021, 0, "a")>>,
     <<MkDoc(File2021, 0, "a"), MkDoc(File2020, 0, "b")>>,
     <<MkDoc(File2020, 0, "b")>>,
     <<MkDoc(File2021, 0, "d")>>,
     <<MkDoc(FileNoYear, 0, "a")>>}

\* the arguments of the searches; a threshold is a similarity in the
\* representation of similarities: -1, 0, 1/sqrt(2) and 1
SearchQueries == {CreateEmbedding("a"), CreateEmbedding("c")}
MaxLimit == 2
SearchLimits == 1..MaxLimit
SearchThresholds == {-SimScale, 0, SimScale \div 2, SimScale}
SearchFilters ==
    [year          : {Unset, Given(ExtractYearFromFilename(File2020))},
     filename      : {Unset, Given(File2021)},
     minSimilarity : {Unset} \cup {Given(t) : t \in SearchThresholds}]

\* the orders of a scan; the id of FileNoYear, which never has a row (its year
\* does not fit the column), is put last
SearchOrders == {o \in Orders : o[Len(o)] = <<FileNoYear, 0>>}

SearchInit ==
    /\ ChunkOff
    /\ useVectorExtension \in BOOLEAN
    /\ tableKind \in {"vector", "jsonb"}
    /\ db = EmptyTable
    /\ now = 0
    /\ nextIns = 0
    /\ spc = "idle"
    /\ sdocs = <<>>
    /\ si = 1
    /\ stx = NoTx
    /\ sfail = "none"
    /\ srolledBack = FALSE
    /\ sthrown = "none"
    /\ sdb0 = EmptyTable
    /\ sprev = FALSE
    /\ scalls = 0
    /\ checkedOut = 0
    /\ faulty = FALSE
    /\ ReadsOff
    /\ ipc = "idle"
    /\ icalls = 1
    /\ initialized = TRUE
    /\ closed = FALSE
    /\ modes = {}
    /\ iprobe = "none"
    /\ ithrown = "none"
    /\ cthrown = FALSE
    /\ PipeOff

SearchNext ==
    \/ \E documents \in SearchBatches : StoreDocuments(documents)
    \/ StoreBegin
    \/ StoreUpsert
    \/ StoreCommit
    \/ StoreRollback
    \/ \E order \in SearchOrders, q \in SearchQueries, limit \in SearchLimits,
          filters \in SearchFilters :
          SearchSimilar(order, q, limit, filters)
    \/ SearchReturn

SpecSearch == SearchInit /\ [][SearchNext]_vars

\* the cosine similarity of a stored row with the query
SimilarityOf(row, q) == PgSimilarity(row.embedding, q)

\* the rows of the table that have the year and the filename the filters give
Matching(table, filters) ==
    {r \in Rows(table) : /\ filters.year.set => r.year = filters.year.v
                         /\ filters.filename.set => r.filename = filters.filename.v}

\* the ids of a result, in its order
IdsOf(res) == [k \in 1..Len(res) |-> res[k].id]

\* C4: in both modes and for every minSimilarity threshold in [-1, 1] that is
\* supplied (0 and negative values included), a searchSimilar call that
\* returns has returned only records whose similarity is >= the threshold,
\* and the threshold is applied before the truncation to limit: the result is
\* the top-ranked min(limit, number of qualifying records) qualifying records.
C4_ThresholdInclusive ==
    (found.op = "search" /\ found.res.ok /\ found.filters.minSimilarity.set) =>
        LET res == found.res.v
            threshold == found.filters.minSimilarity.v
            qualifying == {r \in Matching(found.table, found.filters) :
                              SimilarityOf(r, found.q) >= threshold}
        IN  /\ \A k \in 1..Len(res) : res[k].similarity >= threshold
            /\ Len(res) = Min2(found.limit, Cardinality(qualifying))
            /\ \A r \in qualifying :
                  (\A k \in 1..Len(res) : res[k].id # r.id) =>
                      SimilarityOf(r, found.q) <= res[Len(res)].similarity

\* C5: every searchSimilar result is ordered by similarity descending, and
\* records of equal similarity appear in the order in which they were first
\* inserted (also after records were overwritten by a later upsert).
C5_TiesByInsertion ==
    (found.op = "search" /\ found.res.ok) =>
        LET res == found.res.v
        IN  \A j, k \in 1..Len(res) :
                j < k =>
                    \/ res[j].similarity > res[k].similarity
                    \/ /\ res[j].similarity = res[k].similarity
                       /\ found.table[res[j].id].ins < found.table[res[k].id].ins

\* C6: in both modes, when filters.year and/or filters.filename are given,
\* every record a searchSimilar call returns has that year and/or filename,
\* whatever the similarity of the excluded records; the predicates are
\* applied before ranking and before the truncation to limit: a record with
\* the given year and filename is missing from the result only if it is
\* below the given threshold, or the result is full (limit records) and
\* the record ranks no higher than the last one returned.
C6_MetadataFilters ==
    (found.op = "search" /\ found.res.ok) =>
        LET res == found.res.v
            f == found.filters
        IN  /\ \A k \in 1..Len(res) :
                  /\ f.year.set => res[k].year = f.year.v
                  /\ f.filename.set => res[k].filename = f.filename.v
                  /\ found.table[res[k].id] \in Matching(found.table, f)
            /\ Len(res) <= found.limit
            /\ \A r \in Matching(found.table, f) :
                  (\A k \in 1..Len(res) : res[k].id # r.id) =>
                      \/ f.minSimilarity.set /\ SimilarityOf(r, found.q) < f.minSimilarity.v
                      \/ /\ Len(res) = found.limit
                         /\ SimilarityOf(r, found.q) <= res[Len(res)].similarity

\* an indexed search for one record of year 2020 returned the record of that
\* year, while the table held a record of another year with a higher similarity
C6_Witness ==
    /\ found.op = "search"
    /\ found.indexed
    /\ found.res.ok
    /\ found.filters.year = Given(ExtractYearFromFilename(File2020))
    /\ found.limit = 1
    /\ Len(found.res.v) = 1
    /\ \E r \in Rows(found.table) :
          /\ r.year # found.filters.year.v
          /\ SimilarityOf(r, found.q) > found.res.v[1].similarity

\* the column initialize creates in a mode
KindOf(indexed) == IF indexed THEN "vector" ELSE "jsonb"

\* C8: ranking is identical in the two modes: for the same persisted
\* records, query vector, filters and limit, a searchSimilar call in one
\* mode (over the table of that mode) and the call in the other mode (over
\* the table of the other mode) return the same sequence of record ids, for
\* some order in which the engine may scan the rows.
C8_SameRanking ==
    (found.op = "search" /\ found.kind = KindOf(found.indexed)) =>
        \E order \in Orders :
            LET other == Search(~found.indexed, KindOf(~found.indexed), found.table, order,
                                found.q, found.limit, found.filters)
            IN  /\ other.ok = found.res.ok
                /\ found.res.ok => IdsOf(other.v) = IdsOf(found.res.v)

\* C17: close() is idempotent: a second or later close() call on a
\* VectorStore completes without error (and leaves the pool released, as the
\* first call did).
C17_CloseIdempotent ==
    /\ ~cthrown
    /\ closed => PoolOutcomes = {FALSE}

\* a step of initialize() in which the probe (CREATE EXTENSION) fails
ProbeFails == ipc = "probe" /\ ipc' # "probe" /\ iprobe' = "failed"

\* a step in which the table/index statements of an initialize() call whose
\* probe failed succeed and the call returns
FallbackSchemaDone ==
    ipc = "schema" /\ iprobe = "failed" /\ ipc' = "idle" /\ ithrown' = "none"

\* C18: a failure of the probe is never fatal: when the connection test of
\* initialize() has succeeded and the probe fails, initialize() throws no
\* error for that reason, selects scalar mode and goes on to the table and
\* index statements, which create the JSONB table (when there is no table
\* yet); initialize() throws only the error of the connection test or of a
\* table/index statement.
C18_ProbeNeverFatal ==
    [][/\ ithrown' \in {"none", "connect", "select", "schema"}
       /\ ProbeFails => (ipc' = "schema" /\ ithrown' = "none" /\ ~useVectorExtension')
       /\ FallbackSchemaDone =>
             /\ initialized'
             /\ ~useVectorExtension'
             /\ tableKind' = IF tableKind = "none" THEN "jsonb" ELSE tableKind]_vars

\* an initialize() call on a database without the table, whose probe failed,
\* has returned: scalar mode and a JSONB table
C18_Witness ==
    /\ ipc = "idle"
    /\ icalls = 1
    /\ iprobe = "failed"
    /\ ithrown = "none"
    /\ initialized
    /\ ~useVectorExtension
    /\ tableKind = "jsonb"

C23_ClientsReleased ==
    /\ checkedOut >= 0
    /\ (ipc = "idle" /\ spc \in {"idle", "done"}) => checkedOut = 0

-----------------------------------------------------------------------------
(* Store, then search with the embedding of a stored record.                 *)

\* the batches of the round-trip runs: two records of different files with
\* the same embedding, single records with other embeddings (one of them
\* overwrites), and a record that the table rejects
RoundBatches ==
    {<<MkDoc(File2020, 0, "a"), MkDoc(File2021, 0, "a")>>,
     <<MkDoc(File2021, 0, "c")>>,
     <<MkDoc(File2020, 0, "d")>>,
     <<MkDoc(FileNoYear, 0, "a")>>}

RoundQueries == {CreateEmbedding(t) : t \in {"a", "c", "d"}}

RoundNext ==
    \/ \E documents \in RoundBatches : StoreDocuments(documents)
    \/ StoreBegin
    \/ StoreUpsert
    \/ StoreCommit
    \/ StoreRollback
    \/ \E order \in SearchOrders, q \in RoundQueries, limit \in SearchLimits :
          SearchSimilar(order, q, limit, NoFilters)
    \/ SearchReturn

SpecRound == SearchInit /\ [][RoundNext]_vars

\* C12: round trip: once storeDocuments has persisted a record R, a
\* searchSimilar call with R's embedding as the query, any limit >= 1 and no
\* filters (in a mode that matches the column of the table) returns R with
\* similarity 1, and no record of a strictly lower similarity is ranked
\* before R, whatever other records the table holds.
C12_RoundTrip ==
    (found.op = "search" /\ found.kind = KindOf(found.indexed)) =>
        \A r \in Rows(found.table) :
            r.embedding = found.q =>
                /\ found.res.ok
                /\ \E k \in 1..Len(found.res.v) :
                      /\ found.res.v[k].id = r.id
                      /\ found.res.v[k].similarity = SimScale
                      /\ \A j \in 1..(k - 1) : found.res.v[j].similarity >= SimScale

-----------------------------------------------------------------------------
(* The lengths of the persisted embeddings.                                  *)

\* a length other than that of the embedder's vectors
OtherDim == EmbeddingDim - 1

\* the records of the runs: of the embedder's length, of another length (a
\* new id and an overwrite), and without embedding
DimDocs ==
    {MkDoc(File2020, 0, "a"),
     WithEmbedding(MkDoc(File2021, 0, "b"), Vec(OtherDim, 0, 1)),
     WithEmbedding(MkDoc(File2020, 0, "b"), Vec(OtherDim, 0, 1)),
     WithEmbedding(MkDoc(File2021, 0, "c"), Undefined)}

DimBatches == UNION {[1..n -> DimDocs] : n \in 1..MaxBatch}

DimNext ==
    \/ \E documents \in DimBatches : StoreDocuments(documents)
    \/ StoreBegin
    \/ StoreUpsert
    \/ StoreCommit
    \/ StoreRollback

SpecDim == SearchInit /\ [][DimNext]_vars

-----------------------------------------------------------------------------
(* calculateCosineSimilarity and the searches of scalar mode.                *)

\* vectors of two lengths, the zero vector of each among them
CosineVectors ==
    {Vec(dim, c[1], c[2]) : dim \in {EmbeddingDim, OtherDim},
                            c \in {<<0, 0>>, <<1, 0>>, <<1, 1>>, <<-1, 0>>}}

\* the batches of the scalar runs: a record with an embedding of the
\* embedder's length and one with the zero vector, a record with an
\* embedding of another length, and a record that the table rejects
ScalarBatches ==
    {<<MkDoc(File2020, 0, "a"),
       WithEmbedding(MkDoc(File2021, 0, "b"), Vec(EmbeddingDim, 0, 0))>>,
     <<WithEmbedding(MkDoc(File2021, 0, "b"), Vec(OtherDim, 0, 1))>>,
     <<MkDoc(FileNoYear, 0, "a")>>}

\* a store that has not detected the extension: useVectorExtension = false
ScalarInit ==
    /\ SearchInit
    /\ ~useVectorExtension

ScalarNext ==
    \/ \E documents \in ScalarBatches : StoreDocuments(documents)
    \/ StoreBegin
    \/ StoreUpsert
    \/ StoreCommit
    \/ StoreRollback
    \/ \E order \in SearchOrders, q \in CosineVectors, limit \in SearchLimits :
          SearchSimilar(order, q, limit, NoFilters)
    \/ \E vec1, vec2 \in CosineVectors : CosineSimilarity(vec1, vec2)
    \/ SearchReturn

SpecScalar == ScalarInit /\ [][ScalarNext]_vars

\* the vector has zero norm
ZeroNorm(vec) == Dot(vec, vec) = 0

\* C14: calculateCosineSimilarity(a, b) raises the dimension-mismatch error
\* exactly when the two vectors differ in length; for vectors of equal length
\* it returns exactly 0, not an error, whenever either vector has zero norm
\* (so a zero vector compared with any vector of its length yields 0); and a
\* scalar-mode searchSimilar that meets a stored embedding of another length
\* than the query fails as a whole.
C14_CosineErrors ==
    /\ found.op = "cosine" =>
          /\ ~found.res.ok <=> found.vec1.dim # found.vec2.dim
          /\ (found.vec1.dim = found.vec2.dim
                 /\ (ZeroNorm(found.vec1) \/ ZeroNorm(found.vec2))) =>
                found.res = Value(0)
    /\ (found.op = "search" /\ ~found.indexed) =>
          /\ (\E r \in Rows(found.table) : r.embedding.dim # found.q.dim) => ~found.res.ok
          /\ found.res.ok =>
                \A k \in 1..Len(found.res.v) :
                    (ZeroNorm(found.q) \/ ZeroNorm(found.table[found.res.v[k].id].embedding)) =>
                        found.res.v[k].similarity = 0

\* a scalar search over the vector column, whose text parses, has met two
\* stored embeddings of another length than the query and has thrown
C14_Witness ==
    /\ found.op = "search"
    /\ ~found.indexed
    /\ found.kind = "vector"
    /\ Cardinality(Rows(found.table)) = 2
    /\ \A r \in Rows(found.table) : r.embedding.dim # found.q.dim
    /\ ~found.res.ok

-----------------------------------------------------------------------------
(* The embedder: createEmbedding (609-616), generateEmbeddings (504-523),    *)
(* searchByText (336-364), and the ingestion script (processDocuments.ts).   *)
(* A text is a run of `len` equal characters `ch`.                           *)

\* text.slice(0, 8000)
MaxEmbedInput == 8000

Run(ch, len) == [ch |-> ch, len |-> len]

\* text.slice(a, b) of a run, 0 <= a, 0 <= b
RunSlice(text, a, b) ==
    [text EXCEPT !.len = Max2(Min2(b, text.len) - Min2(a, text.len), 0)]

\* openai.embeddings.create({model, input}).data[0].embedding when the call
\* succeeds: a deterministic stand-in, the vector of the input's character
Embedding(input) == CreateEmbedding(input.ch)

\* the ProcessedDocument createDocumentChunks builds for chunk i of a file:
\* no embedding yet
MkChunk(filename, i, text) ==
    [MkDoc(filename, i, text.ch) EXCEPT !.content = text, !.embedding = Undefined]

\* the arrays given to generateEmbeddings: chunks of two files with a year,
\* a chunk longer than the embedder accepts, and chunks of a file without year
PipeBatches ==
    {<<MkChunk(File2020, 0, Run("a", 1)), MkChunk(File2021, 0, Run("b", 1))>>,
     <<MkChunk(File2020, 0, Run("c", MaxEmbedInput + 1))>>,
     <<MkChunk(FileNoYear, 0, Run("a", 1)), MkChunk(File2021, 0, Run("a", 1))>>}

\* the queries given to searchByText
PipeQueries == {Run("a", 1), Run("a", MaxEmbedInput), Run("c", MaxEmbedInput + 1)}

\* generateEmbeddings(processedDocs): const docsWithEmbeddings = []
GenerateEmbeddings(processedDocs) ==
    /\ ppc = "idle"
    /\ ppc' = "embed"
    /\ pdocs' = processedDocs
    /\ pidx' = 1
    /\ pout' = <<>>
    /\ elog' = <<>>
    /\ UNCHANGED <<chunkVars, dbVars, useVectorExtension, storeVars, checkedOut, faulty,
                   readVars, lifeVars, qlog, qout>>

\* one iteration of the for loop: try { embedding = await
\* this.createEmbedding(doc.content); push({...doc, embedding}) }
\* catch (error) { console.error(...) }
EmbedChunk ==
    /\ ppc = "embed"
    /\ pidx <= Len(pdocs)
    /\ \E ok \in BOOLEAN :
          LET input == RunSlice(pdocs[pidx].content, 0, MaxEmbedInput)
          IN  /\ elog' = Append(elog, [len |-> input.len, ok |-> ok])
              /\ pout' = IF ok
                         THEN Append(pout, WithEmbedding(pdocs[pidx], Embedding(input)))
                         ELSE pout
    /\ pidx' = pidx + 1
    /\ UNCHANGED <<chunkVars, dbVars, useVectorExtension, storeVars, checkedOut, faulty,
                   readVars, lifeVars, ppc, pdocs, qlog, qout>>

\* return docsWithEmbeddings
GenerateReturn ==
    /\ ppc = "embed"
    /\ pidx > Len(pdocs)
    /\ ppc' = "returned"
    /\ UNCHANGED <<chunkVars, dbVars, useVectorExtension, storeVars, checkedOut, faulty,
                   readVars, lifeVars, pdocs, pidx, pout, elog, qlog, qout>>

\* main() of processDocuments.ts: if (documents.length === 0) return;
\* ...; await vectorStore.storeDocuments(documents)
ProcessStore ==
    /\ ppc = "returned"
    /\ Len(pout) # 0
    /\ scalls = 0
    /\ StoreDocuments(pout)

\* searchByText(query, limit, filters): the embedder is called with the query
\* as it is; its error leaves the call (there is no try); otherwise
\* return this.searchSimilar(queryEmbedding, limit, filters)
SearchByText(order, query, limit, filters) ==
    /\ ppc # "off"
    /\ found = NoSearch
    /\ \E ok \in BOOLEAN :
          /\ qlog' = <<[len |-> query.len, ok |-> ok]>>
          /\ IF ok
             THEN /\ SearchSimilarCall(order, Embedding(query), limit, filters)
                  /\ qout' = "searched"
             ELSE /\ qout' = "thrown"
                  /\ UNCHANGED <<chunkVars, dbVars, useVectorExtension, storeVars, checkedOut,
                                 faulty, readVars, lifeVars>>
    /\ UNCHANGED <<ppc, pdocs, pidx, pout, elog>>

\* a store initialized on a fresh database and a document processor
PipeInit ==
    /\ ChunkOff
    /\ \E probe \in BOOLEAN :
          /\ useVectorExtension = probe
          /\ tableKind = IF probe THEN "vector" ELSE "jsonb"
    /\ db = EmptyTable
    /\ now = 0
    /\ nextIns = 0
    /\ spc = "idle"
    /\ sdocs = <<>>
    /\ si = 1
    /\ stx = NoTx
    /\ sfail = "none"
    /\ srolledBack = FALSE
    /\ sthrown = "none"
    /\ sdb0 = EmptyTable
    /\ sprev = FALSE
    /\ scalls = 0
    /\ checkedOut = 0
    /\ faulty = FALSE
    /\ ReadsOff
    /\ ipc = "idle"
    /\ icalls = 1
    /\ initialized = TRUE
    /\ closed = FALSE
    /\ modes = {}
    /\ iprobe = IF useVectorExtension THEN "ok" ELSE "failed"
    /\ ithrown = "none"
    /\ cthrown = FALSE
    /\ ppc = "idle"
    /\ pdocs = <<>>
    /\ pidx = 1
    /\ pout = <<>>
    /\ elog = <<>>
    /\ qlog = <<>>
    /\ qout = "none"

PipeNext ==
    \/ \E processedDocs \in PipeBatches : GenerateEmbeddings(processedDocs)
    \/ EmbedChunk
    \/ GenerateReturn
    \/ ProcessStore
    \/ StoreBegin
    \/ StoreUpsert
    \/ StoreCommit
    \/ StoreRollback
    \/ \E order \in SearchOrders, query \in PipeQueries, limit \in SearchLimits :
          SearchByText(order, query, limit, NoFilters)
    \/ SearchReturn

SpecPipe == PipeInit /\ [][PipeNext]_vars

\* C15: every text passed to the embedder, by createEmbedding on the
\* ingestion path and by searchByText on the query path, has at most 8000
\* characters.
C15_EmbedderInputBounded ==
    /\ \A k \in 1..Len(elog) : elog[k].len <= MaxEmbedInput
    /\ \A k \in 1..Len(qlog) : qlog[k].len <= MaxEmbedInput

\* C16: a failing embedder call is never isolated.  A searchByText call has
\* called the embedder exactly once; when that call failed, searchByText
\* threw and the store was not queried.  In ingestion, generateEmbeddings
\* does not return a batch once the embedder has failed for a chunk, and no
\* batch is stored that holds only the chunks embedded successfully.
C16_EmbedderFailurePropagates ==
    /\ qout # "none" =>
          /\ Len(qlog) = 1
          /\ qlog[1].ok <=> qout = "searched"
          /\ qout = "thrown" => found = NoSearch
    /\ (\E k \in 1..Len(elog) : ~elog[k].ok) =>
          /\ ppc # "returned"
          /\ scalls = 0

\* C20: every record the ingestion pipeline produces carries a year that the
\* table accepts: the first run of four digits of the filename, or "unknown"
\* when the filename has none; storeDocuments persists the batch the
\* pipeline produced, whichever kinds of record it contains.
C20_YearAccepted ==
    /\ \A k \in 1..Len(pout) :
          /\ pout[k].year = ExtractYearFromFilename(pout[k].filename)
          /\ Len(pout[k].year) <= MaxYearLen
    /\ spc = "done" =>
          /\ sthrown = "none"
          /\ \A k \in 1..Len(sdocs) : db[sdocs[k].id] # NoRow

-----------------------------------------------------------------------------
(* DocumentProcessor.chunkDocument, vectorStore.ts lines 576-606 *)

\* `chunk.trim().length > 50`
MinChunkLen == 50

\* const end = Math.min(start + chunkSize, content.length)
ChunkEnd == Min2(start + chunkSize, Len(content))

\* ChunkBoundary as a position in content instead of in the window
ChunkBoundaryInContent ==
    SetMax({-1} \cup {i \in start..(ChunkEnd - 1) : content[i + 1] \in {".", "\n"}})

\* const boundary = Math.max(lastPeriod, lastNewline), taken in the window
\* content.slice(start, end): an index RELATIVE to the window.
ChunkBoundary ==
    LET window == JsSlice(content, start, ChunkEnd)
    IN  Max2(JsLastIndexOf(window, "."), JsLastIndexOf(window, "\n"))

\* end < content.length && boundary > start + chunkSize * 0.7
\* (times 10 on both sides to stay in the integers)
TruncatesAtBoundary ==
    /\ ChunkEnd < Len(content)
    /\ ChunkBoundary * 10 > start * 10 + chunkSize * 7

\* the value of `chunk` when the iteration reaches line 600
ChunkTaken ==
    IF TruncatesAtBoundary
    THEN JsSlice(content, start, ChunkBoundary + 1)
    ELSE JsSlice(content, start, ChunkEnd)

\* the value of `start` after the iteration
NextStart ==
    IF ChunkEnd < Len(content)
    THEN IF TruncatesAtBoundary
         THEN ChunkBoundary + 1 - overlap
         ELSE ChunkEnd - overlap
    ELSE ChunkEnd

\* if (chunk.trim().length > 50) chunks.push(chunk.trim())
EmitsChunk == Len(JsTrim(ChunkTaken)) > MinChunkLen

\* one iteration of `while (start < content.length)`
ChunkStep ==
    /\ cpc = "loop"
    /\ start < Len(content)
    /\ start' = NextStart
    /\ chunks' = IF EmitsChunk THEN Append(chunks, JsTrim(ChunkTaken)) ELSE chunks
    /\ ctick' = 1 - ctick
    /\ UNCHANGED <<content, chunkSize, overlap, cpc>>
    /\ UNCHANGED <<dbVars, useVectorExtension, storeVars, checkedOut, faulty, readVars, lifeVars,
                   pipeVars>>

\* the loop condition fails: `return chunks`
ChunkReturn ==
    /\ cpc = "loop"
    /\ ~(start < Len(content))
    /\ cpc' = "done"
    /\ UNCHANGED <<content, chunkSize, overlap, start, chunks, ctick>>
    /\ UNCHANGED <<dbVars, useVectorExtension, storeVars, checkedOut, faulty, readVars, lifeVars,
                   pipeVars>>

\* Inputs of the chunker runs: texts of letters with at most one '.' (at a
\* position of DotAt) and at most one line break (at a position of
\* NewlineAt; -1 for none), of the lengths TextLens, chunked with each pair
\* (size, overlap) of ChunkParams that the contract admits and L >= size.
MaxTextLen == 64
TextLens == {12, MaxTextLen - 3, MaxTextLen}
DotAt == -1..(MaxTextLen - 1)
NewlineAt == {-1, 9, 45, 59}
ChunkSizes == {10, 60}
Overlaps == {0, 3, 9}
ChunkParams == {p \in ChunkSizes \X Overlaps : p[1] > 0 /\ 0 <= p[2] /\ p[2] < p[1]}

MkText(len, dot, nl) ==
    [i \in 1..len |-> IF i - 1 = nl THEN "\n" ELSE IF i - 1 = dot THEN "." ELSE "a"]

ChunkInitOver(lens, dots, nls, params) ==
    /\ \E len \in lens, dot \in dots, nl \in nls :
          /\ dot < len
          /\ nl < len
          /\ content = MkText(len, dot, nl)
    /\ \E p \in params :
          /\ chunkSize = p[1]
          /\ overlap = p[2]
    /\ Len(content) >= chunkSize
    /\ start = 0
    /\ chunks = <<>>
    /\ cpc = "loop"
    /\ ctick = 0
    /\ StoreOff

ChunkNext == ChunkStep \/ ChunkReturn

\* chunkDocument on the texts above
SpecChunk == ChunkInitOver(TextLens, DotAt, NewlineAt, ChunkParams) /\ [][ChunkNext]_vars

\* chunkDocument on short texts, with the scheduling of a sequential loop: an
\* enabled iteration is eventually executed.
ShortTextLen == 13
ShortParams == {p \in ChunkParams : p[1] <= ShortTextLen}
SpecChunkFair ==
    /\ ChunkInitOver((ShortTextLen - 2)..ShortTextLen, -1..(ShortTextLen - 1), {-1, 9}, ShortParams)
    /\ [][ChunkNext]_vars
    /\ WF_vars(ChunkNext)

\* the position in the text of the last '.' or line break inside the window
\* [start, ChunkEnd), -1 if there is none
BoundaryInText ==
    SetMax({-1} \cup {i \in start..(ChunkEnd - 1) : content[i + 1] \in {".", "\n"}})

\* C19: at any cursor position start, when an iteration of chunkDocument
\* truncates its window at a sentence boundary, the chunk taken (before
\* trimming) is text[start .. boundary] inclusive, where boundary is the
\* position in the text of the last '.' or line break inside the window and
\* boundary > start + 0.7 * size, and the cursor advances to
\* boundary + 1 - overlap; otherwise (the window not reaching the end of
\* the text) the full window is taken and the cursor advances to
\* window_end - overlap.
C19_BoundaryAtAnyStart ==
    [][(cpc = "loop" /\ start < Len(content) /\ ChunkEnd < Len(content)) =>
          IF TruncatesAtBoundary
          THEN /\ ChunkTaken = JsSlice(content, start, BoundaryInText + 1)
               /\ BoundaryInText * 10 > start * 10 + chunkSize * 7
               /\ start' = BoundaryInText + 1 - overlap
          ELSE /\ ChunkTaken = JsSlice(content, start, ChunkEnd)
               /\ start' = ChunkEnd - overlap]_vars

\* chunkDocument(doc.content, 1000, 200), the call of createDocumentChunks
DefaultChunkSize == 1000
DefaultOverlap == 200

\* texts of up to MaxDocLen characters: letters with at most one '.' and at
\* most one line break, and texts with a '.' at the end of every period
MaxDocLen == 2700
DocLens == {300, DefaultChunkSize, DefaultChunkSize + 1, 1900, MaxDocLen}
DocDotAt == {-1, 0, 700, 701, 850, 999, 1000, 1300, 1501, 1650, 1799, 2400}
DocNewlineAt == {-1, 760, 1560}
DocPeriods == {1, 50, DefaultChunkSize}

MkDotted(len, period) ==
    [i \in 1..len |-> IF (i - 1) % period = period - 1 THEN "." ELSE "a"]

DefaultChunkInit ==
    /\ \/ \E len \in DocLens, dot \in DocDotAt, nl \in DocNewlineAt :
             /\ dot < len
             /\ nl < len
             /\ content = MkText(len, dot, nl)
       \/ \E len \in DocLens, period \in DocPeriods : content = MkDotted(len, period)
    /\ chunkSize = DefaultChunkSize
    /\ overlap = DefaultOverlap
    /\ start = 0
    /\ chunks = <<>>
    /\ cpc = "loop"
    /\ ctick = 0
    /\ StoreOff

\* chunkDocument as the pipeline calls it
SpecChunkDefault == DefaultChunkInit /\ [][ChunkNext]_vars

\* the least cursor the truncation branch can set at start = 0: the least
\* boundary above 0.7 * size, plus 1, minus the overlap (502)
LeastCursorAfterCut == (DefaultChunkSize * 7) \div 10 + 1 + 1 - DefaultOverlap

\* C21: with size = 1000 and overlap = 200, for every text, an iteration of
\* chunkDocument takes the boundary-truncation branch only at start = 0;
\* after the first iteration a cursor inside the text is >= 502; every later
\* iteration whose window does not reach the end of the text takes the full
\* window of 1000 characters and advances the cursor by exactly 800; the
\* cursor increases in every iteration and is never negative.
C21_DefaultParameters ==
    [][(cpc = "loop" /\ start < Len(content)) =>
          /\ start >= 0
          /\ start' > start
          /\ TruncatesAtBoundary => start = 0
          /\ start' < Len(content) => start' >= LeastCursorAfterCut
          /\ (start # 0 /\ ChunkEnd < Len(content)) =>
                /\ Len(ChunkTaken) = DefaultChunkSize
                /\ start' = start + DefaultChunkSize - DefaultOverlap]_vars

\* a call has returned whose first chunk was cut at a boundary, whose second
\* chunk is a full window, and whose second window held a '.' or line break
\* in its last 30%
C21_Witness ==
    /\ cpc = "done"
    /\ chunkSize = DefaultChunkSize
    /\ Len(chunks) >= 3
    /\ Len(chunks[1]) < DefaultChunkSize
    /\ Len(chunks[2]) = DefaultChunkSize
    /\ \E i \in (Len(chunks[1]) - DefaultOverlap + (DefaultChunkSize * 7) \div 10 + 1)
                  ..(Len(chunks[1]) - DefaultOverlap + DefaultChunkSize - 1) :
          content[i + 1] \in {".", "\n"}

\* C3: for every chunk size s > 0 and overlap 0 <= o < s, chunkDocument
\* terminates on every text of length L >= s, and every chunk it emitted has
\* trimmed length > 50.
C3_ChunkTerminates ==
    /\ <>(cpc = "done")
    /\ [](\A i \in 1..Len(chunks) : Len(JsTrim(chunks[i])) > MinChunkLen)

=============================================================================
